---- MODULE Spec2Model ----
(***************************************************************************)
(* Model of hardware/rfid_reader.py: the RFIDReader polling loop (run),    *)
(* the event classifier (detect_departure_arrival) and the event           *)
(* dispatcher (send_to_api).                                               *)
(*                                                                         *)
(* pc is the position of the single thread inside run():                   *)
(*   "start"      line 76, before the loop                                 *)
(*   "read"       line 80, about to call read_tags                         *)
(*   "classify"   line 81                                                  *)
(*   "test"       line 83, if event_type                                   *)
(*   "send"       line 84, about to call send_to_api                       *)
(*   "update"     line 85                                                  *)
(*   "sleep1"     line 87, time.sleep(1)                                   *)
(*   "cooldown"   lines 93-94, inside the except Exception handler         *)
(*   "stopped"    after the break of line 91: run() has returned           *)
(*   "propagated" an exception has left run()                              *)
(***************************************************************************)
EXTENDS Integers, Sequences, FiniteSets, TLC

\* ---------------------------------------------------------------- bounds
MaxTags == 2
MaxReadLen == 3
MaxFixedPosts == 2

Tags == 1..MaxTags

\* ------------------------------------------------------ program constants
NormalDelay == 1
CooldownDelay == 5

VARIABLES
  pc,            \* position in run()
  tag_source,    \* "stub": the shipped read_tags; "driver": a hardware implementation
  last_tags,     \* self.last_tags
  current_tags,  \* local current_tags of run()
  event_type,    \* local event_type of run()
  start_tags,    \* history: self.last_tags when the current cycle began
  posts,         \* history: requests.post calls made in the current cycle
  outcome,       \* history: what the dispatcher met in the current cycle
  status,        \* history: status of the response of the current cycle, 0 if none
  event,         \* history: JSON bodies posted in the current cycle
  log,           \* history: messages logged in the current cycle
  slept,         \* history: duration of the last completed time.sleep, 0 if none
  int_at,        \* history: pc at which a KeyboardInterrupt was delivered, "none" if none
  last_invoked,  \* history: <<tags>> of the last send_to_api call, <<>> if none
  last_returned, \* history: <<tags>> of the last send_to_api call that returned, <<>> if none
  prev_invoked,  \* history: <<tags>> of the send_to_api call before the last, <<>> if none
  last_event,    \* history: <<the last dispatch>> while the reads since return its tags
  fixed,         \* environment: <<C>> once the tag source has settled on C, <<>> before
  fixed_posts    \* history: requests.post calls made since the source settled

vars == <<pc, tag_source, last_tags, current_tags, event_type, start_tags, posts,
          outcome, status, event, log, slept, int_at, last_invoked, last_returned,
          prev_invoked, last_event, fixed, fixed_posts>>

\* ----------------------------------------------------------------- helpers
Range(s) == {s[i] : i \in DOMAIN s}

SeqsUpTo(S, n) == UNION {[1..k -> S] : k \in 0..n}

\* set(...) of line 80: duplicates of the list collapse
set(list) == Range(list)

\* what read_tags can return: the shipped stub returns [], a driver any list
read_tags(source) ==
  IF source = "stub" THEN {<<>>} ELSE SeqsUpTo(Tags, MaxReadLen)

\* exceptions that occur in the model
RequestExceptions == {"HTTPError", "ConnectionError", "Timeout"}
UnexpectedExceptions == {"TypeError"}

\* mutant: only the HTTPError of raise_for_status is caught by line 69
IsHTTPErrorOnly(exc) == exc = "HTTPError"

IsRequestException(exc) == exc \in RequestExceptions

\* mutant: line 43 without its test of last_tags, an empty read is an arrival
detect_empty_arrival(last, current) ==
  IF last = {} /\ current # {} THEN "departure"
  ELSE IF current = {} THEN "arrival"
  ELSE IF current # last
       THEN (IF Cardinality(current) > Cardinality(last) THEN "departure" ELSE "arrival")
  ELSE "None"

\* mutant: the two labels exchanged
detect_swapped(last, current) ==
  IF last = {} /\ current # {} THEN "arrival"
  ELSE IF last # {} /\ current = {} THEN "departure"
  ELSE IF current # last
       THEN (IF Cardinality(current) > Cardinality(last) THEN "arrival" ELSE "departure")
  ELSE "None"

\* mutant: >= for the > of line 46
detect_ge(last, current) ==
  IF last = {} /\ current # {} THEN "departure"
  ELSE IF last # {} /\ current = {} THEN "arrival"
  ELSE IF current # last
       THEN (IF Cardinality(current) >= Cardinality(last) THEN "departure" ELSE "arrival")
  ELSE "None"

\* mutant: line 45 compares the sizes, not the sets
detect_by_size(last, current) ==
  IF last = {} /\ current # {} THEN "departure"
  ELSE IF last # {} /\ current = {} THEN "arrival"
  ELSE IF Cardinality(current) # Cardinality(last)
       THEN (IF Cardinality(current) > Cardinality(last) THEN "departure" ELSE "arrival")
  ELSE "None"

\* lines 37-50
detect_departure_arrival(last, current) ==
  IF last = {} /\ current # {} THEN "departure"
  ELSE IF last # {} /\ current = {} THEN "arrival"
  ELSE IF current # last
       THEN (IF Cardinality(current) > Cardinality(last) THEN "departure" ELSE "arrival")
  ELSE "None"

\* response.raise_for_status() of line 65: HTTPError for 4xx and 5xx only
raise_for_status(code) ==
  IF 400 <= code /\ code < 600 THEN "HTTPError" ELSE "none"

\* what requests.post of line 64 can do: return a response or raise
StatusCodes == {101, 200, 204, 304, 404, 503}

PostOutcomes ==
  [kind : {"response"}, status : StatusCodes, exc : {"none"}]
  \cup [kind : {"raise"}, status : {0},
        exc : {"ConnectionError", "Timeout", "KeyboardInterrupt"} \cup UnexpectedExceptions]

\* mutant: a failed request is sent a second time before giving up
send_to_api_retry(tags, etype, o) ==
  LET data == [tags |-> tags, event_type |-> etype, location |-> "main_door"]
      raised == IF o.kind = "raise" THEN o.exc ELSE raise_for_status(o.status)
  IN  IF raised = "none"
      THEN [exc |-> "none", posted |-> <<data>>, logs |-> <<"Sent event">>]
      ELSE IF IsRequestException(raised)
      THEN [exc |-> "none", posted |-> <<data, data>>,
            logs |-> <<"Failed to send API request">>]
      ELSE [exc |-> raised, posted |-> <<data>>, logs |-> <<>>]

\* lines 52-70: one call of send_to_api, given what requests.post does
send_to_api(tags, etype, o) ==
  LET data == [tags |-> tags, event_type |-> etype, location |-> "main_door"]
      raised == IF o.kind = "raise" THEN o.exc ELSE raise_for_status(o.status)
  IN  IF raised = "none"
      THEN [exc |-> "none", posted |-> <<data>>, logs |-> <<"Sent event">>]
      ELSE IF IsRequestException(raised)
      THEN [exc |-> "none", posted |-> <<data>>,
            logs |-> <<"Failed to send API request">>]
      ELSE [exc |-> raised, posted |-> <<data>>, logs |-> <<>>]

\* positions inside the try body of lines 79-87
TryBody == {"read", "classify", "test", "send", "update", "sleep1"}

\* mutant: the except Exception handler ends the loop instead of retrying
except_clause_break(exc, at) ==
  IF at \notin TryBody THEN "propagated"
  ELSE "stopped"

\* mutant: no except Exception clause, only KeyboardInterrupt is caught
except_clause_no_catch(exc, at) ==
  IF at \notin TryBody THEN "propagated"
  ELSE IF exc = "KeyboardInterrupt" THEN "stopped"
  ELSE "propagated"

\* lines 89-94: where an exception raised at position at takes the loop
except_clause(exc, at) ==
  IF at \notin TryBody THEN "propagated"
  ELSE IF exc = "KeyboardInterrupt" THEN "stopped"
  ELSE "cooldown"

\* lines 90 and 93: what the handler logs
handler_log(target) ==
  IF target = "stopped" THEN <<"RFID reader stopped by user">>
  ELSE IF target = "cooldown" THEN <<"Error in RFID reader">>
  ELSE <<>>

\* ------------------------------------------------------------------- Init
Init ==
  /\ pc = "start"
  /\ tag_source \in {"stub", "driver"}
  /\ last_tags = {}
  /\ current_tags = {}
  /\ event_type = "None"
  /\ start_tags = {}
  /\ posts = 0
  /\ outcome = "none"
  /\ status = 0
  /\ event = <<>>
  /\ log = <<>>
  /\ slept = 0
  /\ int_at = "none"
  /\ last_invoked = <<>>
  /\ last_returned = <<>>
  /\ prev_invoked = <<>>
  /\ last_event = <<>>
  /\ fixed = <<>>
  /\ fixed_posts = 0

\* ---------------------------------------------------------------- actions
\* line 76
Start ==
  /\ pc = "start"
  /\ pc' = "read"
  /\ log' = <<"Starting RFID reader...">>
  /\ UNCHANGED <<tag_source, last_tags, current_tags, event_type, start_tags, posts,
                 outcome, status, event, slept, int_at, last_invoked, last_returned>>
  /\ UNCHANGED <<prev_invoked, last_event, fixed, fixed_posts>>

\* line 80, read_tags returns
Read ==
  /\ pc = "read"
  /\ \E list \in read_tags(tag_source) :
       /\ current_tags' = set(list)
       /\ last_event' = IF last_event # <<>> /\ last_event[1].tags = set(list)
                        THEN last_event ELSE <<>>
  /\ pc' = "classify"
  /\ UNCHANGED <<prev_invoked, fixed, fixed_posts>>
  /\ UNCHANGED <<tag_source, last_tags, event_type, start_tags, posts, outcome, status,
                 event, log, slept, int_at, last_invoked, last_returned>>

\* line 80, a hardware read_tags raises; the stub cannot
ReadRaises ==
  /\ pc = "read"
  /\ tag_source = "driver"
  /\ \E exc \in UnexpectedExceptions :
       /\ pc' = except_clause(exc, pc)
       /\ log' = log \o handler_log(except_clause(exc, pc))
  /\ outcome' = "read_error"
  /\ UNCHANGED <<tag_source, last_tags, current_tags, event_type, start_tags, posts,
                 status, event, slept, int_at, last_invoked, last_returned>>
  /\ UNCHANGED <<prev_invoked, last_event, fixed, fixed_posts>>

\* line 81
Classify ==
  /\ pc = "classify"
  /\ event_type' = detect_departure_arrival(last_tags, current_tags)
  /\ pc' = "test"
  /\ UNCHANGED <<tag_source, last_tags, current_tags, start_tags, posts, outcome, status,
                 event, log, slept, int_at, last_invoked, last_returned>>
  /\ UNCHANGED <<prev_invoked, last_event, fixed, fixed_posts>>

\* mutant: line 83 missing, every cycle dispatches
TestAlwaysSend ==
  /\ pc = "test"
  /\ pc' = "send"
  /\ UNCHANGED <<tag_source, last_tags, current_tags, event_type, start_tags, posts,
                 outcome, status, event, log, slept, int_at, last_invoked, last_returned>>
  /\ UNCHANGED <<prev_invoked, last_event, fixed, fixed_posts>>

\* line 83
Test ==
  /\ pc = "test"
  /\ pc' = IF event_type # "None" THEN "send" ELSE "sleep1"
  /\ UNCHANGED <<tag_source, last_tags, current_tags, event_type, start_tags, posts,
                 outcome, status, event, log, slept, int_at, last_invoked, last_returned>>
  /\ UNCHANGED <<prev_invoked, last_event, fixed, fixed_posts>>

\* line 84: the whole call of send_to_api and what becomes of its exception
Send ==
  /\ pc = "send"
  /\ \E o \in PostOutcomes :
       LET r == send_to_api(current_tags, event_type, o)
           target == IF r.exc = "none" THEN "update" ELSE except_clause(r.exc, pc)
       IN  /\ posts' = posts + Len(r.posted)
           /\ event' = event \o r.posted
           /\ status' = o.status
           /\ outcome' = IF o.kind = "response" THEN "response"
                         ELSE IF o.exc \in UnexpectedExceptions THEN "unexpected"
                         ELSE IF o.exc = "KeyboardInterrupt" THEN "interrupt"
                         ELSE "transport"
           /\ log' = log \o r.logs \o handler_log(target)
           /\ pc' = target
           /\ int_at' = IF r.exc = "KeyboardInterrupt" THEN pc ELSE int_at
           /\ last_returned' = IF r.exc = "none" THEN <<current_tags>> ELSE last_returned
           /\ last_event' = <<[tags |-> current_tags, event_type |-> event_type,
                               status |-> o.status,
                               result |-> IF r.exc = "none" THEN "returned"
                                          ELSE IF r.exc = "KeyboardInterrupt"
                                          THEN "interrupted" ELSE "raised"]>>
           /\ fixed_posts' = IF fixed = <<>> THEN 0
                             ELSE IF fixed_posts + Len(r.posted) > MaxFixedPosts
                             THEN MaxFixedPosts ELSE fixed_posts + Len(r.posted)
  /\ last_invoked' = <<current_tags>>
  /\ prev_invoked' = last_invoked
  /\ UNCHANGED fixed
  /\ UNCHANGED <<tag_source, last_tags, current_tags, event_type, start_tags, slept>>

\* mutant: last_tags advances only when the request was delivered
UpdateOnSuccess ==
  /\ pc = "update"
  /\ last_tags' = IF outcome = "response" /\ raise_for_status(status) = "none"
                  THEN current_tags ELSE last_tags
  /\ pc' = "sleep1"
  /\ UNCHANGED <<tag_source, current_tags, event_type, start_tags, posts, outcome, status,
                 event, log, slept, int_at, last_invoked, last_returned>>
  /\ UNCHANGED <<prev_invoked, last_event, fixed, fixed_posts>>

\* mutant: the read is merged into last_tags instead of replacing it
UpdateMerge ==
  /\ pc = "update"
  /\ last_tags' = last_tags \cup current_tags
  /\ pc' = "sleep1"
  /\ UNCHANGED <<tag_source, current_tags, event_type, start_tags, posts, outcome, status,
                 event, log, slept, int_at, last_invoked, last_returned>>
  /\ UNCHANGED <<prev_invoked, last_event, fixed, fixed_posts>>

\* line 85
Update ==
  /\ pc = "update"
  /\ last_tags' = current_tags
  /\ pc' = "sleep1"
  /\ UNCHANGED <<tag_source, current_tags, event_type, start_tags, posts, outcome, status,
                 event, log, slept, int_at, last_invoked, last_returned>>
  /\ UNCHANGED <<prev_invoked, last_event, fixed, fixed_posts>>

\* the next cycle begins: the history of the finished cycle is dropped
NextCycle ==
  /\ pc' = "read"
  /\ start_tags' = last_tags
  /\ posts' = 0
  /\ outcome' = "none"
  /\ status' = 0
  /\ event' = <<>>
  /\ log' = <<>>

\* line 87 completes
Sleep ==
  /\ pc = "sleep1"
  /\ slept' = NormalDelay
  /\ NextCycle
  /\ UNCHANGED <<tag_source, last_tags, current_tags, event_type, int_at,
                 last_invoked, last_returned>>
  /\ UNCHANGED <<prev_invoked, last_event, fixed, fixed_posts>>

\* mutant: the error handler advances last_tags to the read of the failed cycle
CooldownAdvance ==
  /\ pc = "cooldown"
  /\ slept' = CooldownDelay
  /\ NextCycle
  /\ last_tags' = current_tags
  /\ UNCHANGED <<tag_source, current_tags, event_type, int_at,
                 last_invoked, last_returned>>
  /\ UNCHANGED <<prev_invoked, last_event, fixed, fixed_posts>>

\* line 94 completes
Cooldown ==
  /\ pc = "cooldown"
  /\ slept' = CooldownDelay
  /\ NextCycle
  /\ UNCHANGED <<tag_source, last_tags, current_tags, event_type, int_at,
                 last_invoked, last_returned>>
  /\ UNCHANGED <<prev_invoked, last_event, fixed, fixed_posts>>

\* the user's interrupt arrives while the thread is at pc (outside requests.post)
KeyboardInterrupt ==
  /\ pc \in TryBody \cup {"start", "cooldown"}
  /\ int_at' = pc
  /\ pc' = except_clause("KeyboardInterrupt", pc)
  /\ log' = log \o handler_log(except_clause("KeyboardInterrupt", pc))
  /\ UNCHANGED <<tag_source, last_tags, current_tags, event_type, start_tags, posts,
                 outcome, status, event, slept, last_invoked, last_returned>>
  /\ UNCHANGED <<prev_invoked, last_event, fixed, fixed_posts>>

Next ==
  \/ Start
  \/ Read
  \/ ReadRaises
  \/ Classify
  \/ Test
  \/ Send
  \/ Update
  \/ Sleep
  \/ Cooldown
  \/ KeyboardInterrupt

Spec == Init /\ [][Next]_vars

\* ------------------------------------------- the tag source settles on C
\* from the start of some cycle on, read_tags returns the same set C
Stabilise ==
  /\ pc = "read"
  /\ fixed = <<>>
  /\ \E list \in read_tags(tag_source) : fixed' = <<set(list)>>
  /\ UNCHANGED <<pc, tag_source, last_tags, current_tags, event_type, start_tags, posts,
                 outcome, status, event, log, slept, int_at, last_invoked, last_returned,
                 prev_invoked, last_event, fixed_posts>>

\* before the source settles the loop and its environment are unconstrained
FreeStep == fixed = <<>> /\ Next

\* line 80 once the source has settled: read_tags returns C
StableRead ==
  /\ fixed # <<>>
  /\ Read
  /\ current_tags' = fixed[1]

\* line 84 once the source has settled: requests.post answers or fails in the
\* transport, nothing unexpected is raised and nobody interrupts
StableSend ==
  /\ fixed # <<>>
  /\ Send
  /\ outcome' \in {"response", "transport"}

\* lines 81, 83, 85 and 87 once the source has settled
StableLoop ==
  /\ fixed # <<>>
  /\ (Classify \/ Test \/ Update \/ Sleep)

StableStep == StableRead \/ StableSend \/ StableLoop

NextStable ==
  \/ Stabilise
  \/ FreeStep
  \/ StableRead
  \/ StableSend
  \/ StableLoop

\* the single thread of run() keeps executing while nothing stops it
SpecStable == Init /\ [][NextStable]_vars /\ WF_vars(StableStep)

\* ------------------------------------------------------- shared predicates
\* the dispatcher has been called in the current cycle
Dispatched == event # <<>>

Is2xx(code) == 200 <= code /\ code < 300

LoggedInCycle(msg) == \E i \in DOMAIN log : log[i] = msg

\* -------------------------------------------------------------------- C1
\* C1 (state update law): when a cycle in which the dispatcher was called
\* reaches its end (the delay of line 87), last_tags is exactly the set read
\* in that cycle, whether the POST got a 2xx response, a non-2xx response or
\* a transport error.
C1_StateUpdateLaw ==
  (pc = "sleep1" /\ Dispatched) =>
     /\ last_tags = current_tags
     /\ outcome \in {"response", "transport"}

C1_Witness ==
  /\ pc = "sleep1"
  /\ Dispatched
  /\ outcome = "response"
  /\ status = 503
  /\ last_tags = current_tags
  /\ last_tags # start_tags

\* -------------------------------------------------------------------- C2
\* C2 (no-event law): in a cycle whose classification is None, last_tags is
\* what it was when the cycle began and no HTTP call has been made.
C2_NoEventLaw ==
  (pc \in {"test", "sleep1"} /\ event_type = "None") =>
     /\ last_tags = start_tags
     /\ posts = 0
     /\ ~Dispatched

C2_Witness ==
  /\ pc = "sleep1"
  /\ event_type = "None"
  /\ current_tags # {}
  /\ last_tags = current_tags
  /\ posts = 0

\* -------------------------------------------------------------------- C3
\* the poller is between the steps of a cycle that can change last_tags
Idle == pc \in {"read", "sleep1", "cooldown"}

TagsOf(opt) == IF opt = <<>> THEN {} ELSE opt[1]

\* C3 as claimed: while the poller is idle, last_tags is the tag set of the
\* event for which the dispatcher was last invoked, or empty if there is none.
C3_Original == Idle => last_tags = TagsOf(last_invoked)

\* C3 as amended: while the poller is idle, last_tags is the tag set of the
\* last event whose dispatcher call returned, or empty if there is none.
C3_LastReturned == Idle => last_tags = TagsOf(last_returned)

C3_Witness ==
  /\ pc = "read"
  /\ last_returned # <<>>
  /\ last_invoked # last_returned
  /\ last_tags = TagsOf(last_returned)

\* -------------------------------------------------------------------- C4
\* C4: classifying a non-empty read against an empty last_tags gives
\* "departure"; classifying an empty read against a non-empty last_tags gives
\* "arrival".
C4_EmptyTransitions ==
  pc = "test" =>
     /\ (last_tags = {} /\ current_tags # {}) => event_type = "departure"
     /\ (last_tags # {} /\ current_tags = {}) => event_type = "arrival"

C4_Witness ==
  /\ pc = "test"
  /\ last_tags # {}
  /\ current_tags = {}
  /\ event_type = "arrival"

\* -------------------------------------------------------------------- C5
\* C5: for non-empty unequal last_tags and current_tags the classification is
\* "departure" exactly when the read is larger, and "arrival" otherwise, also
\* when the sizes are equal and the members differ.
C5_BySize ==
  (pc = "test" /\ last_tags # {} /\ current_tags # {} /\ last_tags # current_tags) =>
     /\ event_type = "departure" <=> Cardinality(current_tags) > Cardinality(last_tags)
     /\ event_type # "departure" => event_type = "arrival"

C5_Witness ==
  /\ pc = "test"
  /\ last_tags # {}
  /\ current_tags # {}
  /\ last_tags # current_tags
  /\ Cardinality(current_tags) = Cardinality(last_tags)
  /\ event_type = "arrival"

\* -------------------------------------------------------------------- C6
\* C6: the classification is None exactly when last_tags and current_tags are
\* equal as sets; for unequal sets it is "departure" or "arrival".
C6_NoneIffEqual ==
  pc = "test" =>
     /\ event_type = "None" <=> last_tags = current_tags
     /\ last_tags # current_tags => event_type \in {"departure", "arrival"}

C6_Witness ==
  /\ pc = "test"
  /\ last_tags # {}
  /\ last_tags = current_tags
  /\ event_type = "None"

\* -------------------------------------------------------------------- C7
TransportFailed == outcome = "transport"

\* C7 as claimed: one POST per dispatcher call, and on a non-2xx response or
\* a transport failure the dispatcher logs the error and returns to run()
\* without raising and without sending again.
C7_Original ==
  Dispatched =>
     /\ posts = 1
     /\ (TransportFailed \/ (outcome = "response" /\ ~Is2xx(status))) =>
          /\ LoggedInCycle("Failed to send API request")
          /\ last_returned = <<current_tags>>
          /\ pc \notin {"cooldown", "propagated"}

\* C7 as amended: one POST per dispatcher call; on a 4xx or 5xx response or a
\* transport failure the dispatcher logs the error and returns to run()
\* without raising and without sending again; a response with any other
\* status is logged as sent.
C7_Dispatcher ==
  Dispatched =>
     /\ posts = 1
     /\ (TransportFailed \/ (outcome = "response" /\ status \in 400..599)) =>
          /\ LoggedInCycle("Failed to send API request")
          /\ ~LoggedInCycle("Sent event")
          /\ last_returned = <<current_tags>>
          /\ pc \notin {"cooldown", "propagated"}
     /\ (outcome = "response" /\ status \notin 400..599) =>
          /\ LoggedInCycle("Sent event")
          /\ ~LoggedInCycle("Failed to send API request")
          /\ last_returned = <<current_tags>>

C7_Witness ==
  /\ pc = "update"
  /\ Dispatched
  /\ status = 404
  /\ posts = 1
  /\ LoggedInCycle("Failed to send API request")

\* -------------------------------------------------------------------- C8
UnexpectedRaised == outcome \in {"read_error", "unexpected"}

\* C8: an unexpected exception raised by the read or by the dispatcher is
\* caught by the loop: the cycle goes to the cooldown with last_tags as it was
\* when the cycle began, and the cooldown, unless interrupted, ends after 5
\* seconds with last_tags unchanged and the next cycle starting.
C8_CycleError ==
  [][ /\ (UnexpectedRaised' /\ ~UnexpectedRaised) =>
           /\ pc' = "cooldown"
           /\ last_tags' = start_tags
           /\ last_tags' = last_tags
           /\ LoggedInCycle("Error in RFID reader")'
      /\ (pc = "cooldown" /\ pc' # "propagated") =>
           /\ UnexpectedRaised
           /\ pc' = "read"
           /\ slept' = CooldownDelay
           /\ slept' # NormalDelay
           /\ last_tags' = start_tags
    ]_vars

C8_Witness ==
  /\ pc = "cooldown"
  /\ outcome = "unexpected"
  /\ Dispatched
  /\ last_tags = start_tags
  /\ last_tags # current_tags

\* -------------------------------------------------------------------- C9
NetworkFailed ==
  TransportFailed \/ (outcome = "response" /\ raise_for_status(status) # "none")

\* C9: a cycle whose dispatch met a transport error (or an error status) does
\* not go to the cooldown: it updates last_tags to the read and ends with the
\* normal 1 second delay.
C9_SoftFailure ==
  [][ NetworkFailed =>
        /\ pc \notin {"cooldown", "propagated"}
        /\ pc' \notin {"cooldown", "propagated"}
        /\ pc = "sleep1" => last_tags = current_tags
        /\ pc' = "read" => (slept' = NormalDelay /\ last_tags' = current_tags)
    ]_vars

C9_Witness ==
  /\ pc = "sleep1"
  /\ outcome = "transport"
  /\ LoggedInCycle("Failed to send API request")
  /\ last_tags = current_tags
  /\ last_tags # start_tags

\* ------------------------------------------------------------------- C10
\* C10 as claimed: an interrupt delivered at any point of the loop (read,
\* classify, dispatch, the 1 second sleep or the cooldown) is caught by the
\* loop, "stopped by user" is logged and run() returns.
C10_Claim ==
  (int_at \notin {"none", "start"}) =>
     /\ pc = "stopped"
     /\ LoggedInCycle("RFID reader stopped by user")

\* ------------------------------------------------------------------- C11
\* C11: as long as no interrupt has been delivered, run() has neither
\* returned nor let an exception out, and each delay, the 1 second one and the
\* cooldown after an error alike, is followed by the start of another cycle.
C11_ErrorsNeverStop ==
  [][ int_at' = "none" =>
        /\ pc' \notin {"stopped", "propagated"}
        /\ pc \in {"sleep1", "cooldown"} => pc' = "read"
        /\ (UnexpectedRaised' \/ NetworkFailed') => pc' \in TryBody \cup {"cooldown"}
    ]_vars

C11_Witness ==
  /\ pc = "classify"
  /\ int_at = "none"
  /\ slept = CooldownDelay
  /\ last_invoked # <<>>
  /\ last_invoked # last_returned

\* ------------------------------------------------------------------- C12
\* C12: with the shipped read_tags stub, last_tags is empty in every state,
\* no classification other than None is ever made and the dispatcher is never
\* called.
C12_StubIsSilent ==
  tag_source = "stub" =>
     /\ last_tags = {}
     /\ current_tags = {}
     /\ event_type = "None"
     /\ posts = 0
     /\ ~Dispatched
     /\ last_invoked = <<>>
     /\ pc \notin {"send", "update"}

C12_Witness ==
  /\ tag_source = "stub"
  /\ pc = "sleep1"
  /\ slept = NormalDelay
  /\ event_type = "None"
  /\ last_tags = {}
  /\ posts = 0

\* ------------------------------------------------------------------- C13
\* the last dispatch returned from a non-2xx response or a transport failure,
\* and every read since has returned its tag set
SoftFailedEvent ==
  /\ last_event # <<>>
  /\ last_event[1].result = "returned"
  /\ ~Is2xx(last_event[1].status)

\* C13: after a dispatch that failed softly, as long as the reads keep
\* returning the tag set of that event, no step makes an HTTP call or invokes
\* the dispatcher, and every classification is None.
C13_NoResend ==
  [][ SoftFailedEvent =>
        /\ posts' <= posts
        /\ last_invoked' = last_invoked
        /\ fixed_posts' = fixed_posts
        /\ pc = "test" => event_type = "None"
    ]_vars

C13_Witness ==
  /\ SoftFailedEvent
  /\ last_event[1].status = 0
  /\ pc = "sleep1"
  /\ event_type = "None"
  /\ posts = 0
  /\ current_tags = last_event[1].tags
  /\ last_tags = current_tags

\* ------------------------------------------------------------------- C14
\* C14 as claimed: the tag set of every dispatcher invocation differs from the
\* tag set of the invocation before it, and the first one is not empty.
C14_Original ==
  last_invoked # <<>> => TagsOf(last_invoked) # TagsOf(prev_invoked)

\* C14 as amended: the tag set of every dispatcher invocation differs from the
\* tag set of the last invocation that returned (and is not empty when none
\* has returned); two consecutive invocations carry the same tag set only
\* when the earlier one raised.
C14_DiffersFromLastReturned ==
  [][ posts' > posts =>
        /\ current_tags # TagsOf(last_returned)
        /\ TagsOf(last_invoked') # TagsOf(last_returned)
        /\ (last_invoked' = last_invoked) => last_invoked # last_returned
    ]_vars

C14_Witness ==
  /\ pc = "update"
  /\ last_invoked # <<>>
  /\ prev_invoked = last_invoked
  /\ last_returned = last_invoked

\* ------------------------------------------------------------------- C15
\* the dispatcher raised an unexpected exception for the last event, and every
\* read since has returned its tag set
RaisedEvent ==
  /\ last_event # <<>>
  /\ last_event[1].result = "raised"

\* C15: after the dispatcher raised an unexpected exception for an event,
\* last_tags is not advanced; as long as the reads return the tag set of that
\* event, the cycle follows the 5 second cooldown, classifies the same event
\* type and sends the same event again.
C15_RetryAfterCooldown ==
  [][ RaisedEvent =>
        /\ last_tags' = last_tags
        /\ last_tags # last_event[1].tags
        /\ pc \in {"read", "classify", "test", "send"} => slept = CooldownDelay
        /\ pc = "test" =>
             /\ current_tags = last_event[1].tags
             /\ event_type = last_event[1].event_type
             /\ pc' \in {"send", "stopped"}
        /\ posts' > posts =>
             /\ event'[1].tags = last_event[1].tags
             /\ event'[1].event_type = last_event[1].event_type
    ]_vars

C15_Witness ==
  /\ RaisedEvent
  /\ pc = "send"
  /\ slept = CooldownDelay
  /\ current_tags = last_event[1].tags
  /\ event_type = last_event[1].event_type
  /\ last_tags # current_tags

\* ------------------------------------------------------------------- C16
\* C16: every posted event of type "departure" carries a non-empty tag set,
\* and every posted event with an empty tag set has type "arrival".
C16_DepartureNonEmpty ==
  \A i \in DOMAIN event :
     /\ event[i].event_type = "departure" => event[i].tags # {}
     /\ event[i].tags = {} => event[i].event_type = "arrival"
     /\ event[i].event_type \in {"departure", "arrival"}

C16_Witness ==
  /\ Dispatched
  /\ event[1].tags = {}
  /\ event[1].event_type = "arrival"
  /\ start_tags # {}

\* ------------------------------------------------------------------- C17
\* the loop is at rest on C: last_tags is C and the current cycle has posted
\* nothing, at most one event having been posted since the source settled
Settled ==
  /\ last_tags = TagsOf(fixed)
  /\ posts = 0
  /\ fixed_posts <= 1

\* C17 (stabilisation): once the tag source returns the same set C in every
\* cycle and neither an unexpected exception nor an interrupt occurs, the loop
\* eventually has last_tags = C for good, having posted at most one event
\* since, and no later cycle makes an HTTP call.
C17_Stabilises == (fixed # <<>>) ~> [](fixed # <<>> /\ Settled)

C17_Witness ==
  /\ fixed # <<>>
  /\ fixed_posts = 1
  /\ Settled
  /\ pc = "sleep1"
  /\ event_type = "None"
  /\ last_event # <<>>
  /\ last_event[1].tags = TagsOf(fixed)
====
